---- MODULE Spec2Model ----
(***************************************************************************)
(* Model of the multi-agent research orchestrator                          *)
(* (backend/core/orchestrator.py) and of the three agents it runs          *)
(* (backend/agents/*.py).                                                  *)
(*                                                                         *)
(* One process_agent_request call is followed from the construction of the *)
(* initial state dict, through the nodes of the compiled graph (start,     *)
(* rag_agent, snowflake_agent, web_search_agent, combiner), to the         *)
(* response dict handed back to the caller.  Every await of the call is a  *)
(* step of its own; the dict a node returns is the state the next node and *)
(* the routing function of its conditional edge receive.  No step of the   *)
(* graph raises inside process_agent_request (every node has its own       *)
(* try/except), so the call ends with the response_dict of its try block.  *)
(*                                                                         *)
(* Texts are modelled by tokens (one string per distinct message of the    *)
(* source), Python's None by the token None, a Python dict with insertion  *)
(* order by a sequence of [k, v] pairs, and a quarter label "YYYYqQ" by    *)
(* the pair <<YYYY, Q>>.                                                   *)
(*                                                                         *)
(* Spec is that one call.  The other specifications run the same           *)
(* operators in another setting, over the same five variables:             *)
(*   SpecEngine      the call, with graph.ainvoke itself able to raise     *)
(*   SpecHang        the call, with a backend that may never answer        *)
(*   SpecConcurrent  two calls interleaved on the one orchestrator         *)
(*   SpecReport      generate_comprehensive_report around the call         *)
(*   SpecCombine     _combine_responses on any agent_responses dict        *)
(*   SpecTrend       SnowflakeAgent._determine_trend on any short series   *)
(*   SpecWeb         WebSearchAgent.process_query over its three searches  *)
(*   SpecFilter      PineconeService._construct_time_filter                *)
(*   SpecSearch      PineconeService.hybrid_search over a small index      *)
(*   SpecRag         RAGAgent.process_query over that index                *)
(*   SpecIndexing    the indexing endpoints of main.py and their job       *)
(*   SpecFailing     the call, with process_query able to raise to a node  *)
(*   SpecMetrics     SnowflakeAgent.process_query over a small table       *)
(***************************************************************************)
EXTENDS Integers, Sequences, FiniteSets, TLC

\* ------------------------------------------------------------------ bounds
MaxAgents == 3      \* longest request.agents list explored
MaxPeriods == 2     \* number of consecutive quarter labels explored

\* AgentType (core/models.py)
RAG == "rag"
SNOWFLAKE == "snowflake"
WEB_SEARCH == "web_search"
ALL == "all"
AgentType == {RAG, SNOWFLAKE, WEB_SEARCH, ALL}

\* Python's None where the other values are texts, and where they are dicts
None == "None"
NoneDict == [none |-> TRUE]

\* ---------------------------------------------------------- request inputs
\* the labels 2021q4, 2022q1, 2022q2, ... : the i-th quarter counted from 2021q3
QuarterLabel(i) == <<2021 + ((i + 2) \div 4), ((i + 2) % 4) + 1>>
Quarters == {QuarterLabel(i) : i \in 1..MaxPeriods}

\* TimeRange (core/models.py): two labels, no ordering constraint
TimeRange == [start_quarter : Quarters, end_quarter : Quarters]

\* lists of AgentType of length 0..MaxAgents
AgentLists == UNION {[1..n -> AgentType] : n \in 0..MaxAgents}

Queries == {"", "q"}

\* AgentRequest (core/models.py)
AgentRequest == [query : Queries, agents : AgentLists, time_range : TimeRange]

\* (year, quarter) ordering of two labels
QuarterLess(a, b) == a[1] < b[1] \/ (a[1] = b[1] /\ a[2] < b[2])

\* ------------------------------------------------------- Python dict / list
\* key in d
DictHas(d, key) == \E i \in 1..Len(d) : d[i].k = key

\* d[key]
DictGet(d, key) == d[CHOOSE i \in 1..Len(d) : d[i].k = key].v

\* d[key] = val : an existing key keeps its position, a new key goes last
DictSet(d, key, val) ==
    IF DictHas(d, key)
    THEN [i \in 1..Len(d) |-> IF d[i].k = key THEN [k |-> key, v |-> val] ELSE d[i]]
    ELSE Append(d, [k |-> key, v |-> val])

\* list(d.keys()) : keys in insertion order
DictKeys(d) == [i \in 1..Len(d) |-> d[i].k]

\* x in lst
InList(x, lst) == \E i \in 1..Len(lst) : lst[i] = x

\* sorted(list(set(lst))) for a list of quarter labels
RECURSIVE SortedLabels(_)
SortedLabels(S) ==
    IF S = {} THEN <<>>
    ELSE LET m == CHOOSE x \in S : \A y \in S : y = x \/ QuarterLess(x, y)
         IN <<m>> \o SortedLabels(S \ {m})

\* AgentResponse (core/models.py): agent_type, content, data = None by default
AgentResponse(agent_type, content, data) ==
    [agent_type |-> agent_type, content |-> content, data |-> data]

\* what awaiting a coroutine gives: a returned value or a raised exception
Returned(v) == [raised |-> FALSE, value |-> v]
Raised(e) == [raised |-> TRUE, value |-> e]

\* ------------------------------------------------------------ message texts
RAG_EMPTY_DB == "The document database is empty. Please trigger report indexing before querying."
RAG_NO_PERIOD == "I couldn't find any reports for the specified time period"
RAG_NO_INFO == "I couldn't find any relevant information in NVIDIA's quarterly reports"
RAG_ERROR == "I encountered an error while searching NVIDIA's quarterly reports"
SNOWFLAKE_NO_DATA == "no valuation metrics found in the specified time range"
SNOWFLAKE_ERROR == "error while analysing NVIDIA valuation metrics"
WEB_NO_RESULTS == "I couldn't find any relevant information about NVIDIA from web search"
WEB_ERROR == "I encountered an error while searching for NVIDIA information"
NO_RESPONSES == "No responses from any agents."
COMBINE_ERROR == "Error combining agent responses."

\* response.content of a language-generation call, one text per call site
LLMContent(site) ==
    CASE site = RAG -> "generated answer (rag)"
      [] site = SNOWFLAKE -> "generated answer (snowflake)"
      [] site = WEB_SEARCH -> "generated answer (web_search)"
      [] OTHER -> "generated answer (combiner)"

\* ------------------------------------------------------------ RAGAgent
\* What the index answers during one process_query:
\*   total_vectors       check_index_stats() (0 also when the call fails)
\*   available_quarters  list_all_quarters() (empty also when the call fails)
\*   search_raises       hybrid_search or the formatting of its results raises
\*   hits                quarter labels of the matches hybrid_search returns
\*   llm_raises          the generation call raises
RagEnvs(time_range) ==
    [total_vectors : {0, 1},
     available_quarters : SUBSET Quarters,
     search_raises : BOOLEAN,
     hits : {<<>>} \cup {<<p>> : p \in Quarters},
     llm_raises : BOOLEAN]

\* the index is reachable and gives the agent nothing: it holds no vector, or
\* the search answers with no match
RagNoItems(env) ==
    env.total_vectors = 0 \/ (~env.search_raises /\ env.hits = <<>>)

\* the body of the try block of RAGAgent.process_query
RAGTry(query, time_range, env) ==
    IF env.total_vectors = 0
    THEN Returned(AgentResponse(RAG, RAG_EMPTY_DB, NoneDict))
    ELSE IF /\ env.available_quarters # {}
            /\ time_range.start_quarter \notin env.available_quarters
            /\ time_range.end_quarter \notin env.available_quarters
    THEN Returned(AgentResponse(RAG, RAG_NO_PERIOD, NoneDict))
    ELSE IF env.search_raises
    THEN Raised("search")
    ELSE IF env.hits = <<>>
    THEN Returned(AgentResponse(RAG, RAG_NO_INFO, NoneDict))
    ELSE IF env.llm_raises
    THEN Raised("llm")
    ELSE Returned(AgentResponse(RAG, LLMContent(RAG),
            [sources |-> SortedLabels({env.hits[i] : i \in 1..Len(env.hits)}),
             result_count |-> Len(env.hits)]))

\* RAGAgent.process_query: the except branch turns an exception into a response
RAGProcessQuery(query, time_range, env) ==
    LET t == RAGTry(query, time_range, env)
    IN IF t.raised
       THEN Returned(AgentResponse(RAG, RAG_ERROR, NoneDict))
       ELSE t

\* ------------------------------------------------------------ SnowflakeAgent
ChartNames == {"market_cap_trend", "pe_ratios", "valuation_ratios"}

\* label a <= label b, as the SQL text comparison of two YYYYqQ labels
LabelLeq(a, b) == a = b \/ QuarterLess(a, b)

\* SnowflakeService.get_valuation_metrics: the rows of the table whose label
\* is in [start_quarter, end_quarter], ordered by label; [] without a
\* connection and when the query raises.  A table is a set of rows, one per
\* label.
get_valuation_metrics(time_range, store) ==
    IF store.status # "ok"
    THEN <<>>
    ELSE LET inRange == {r \in store.table :
                            /\ LabelLeq(time_range.start_quarter, r.quarter_label)
                            /\ LabelLeq(r.quarter_label, time_range.end_quarter)}
             labels == SortedLabels({r.quarter_label : r \in inRange})
         IN [i \in 1..Len(labels) |->
                CHOOSE r \in inRange : r.quarter_label = labels[i]]

\* the stores explored: no connection, a failing query, an empty table, and a
\* table with one row at the start label whose market cap is 0 (the default
\* of a missing value) or not
Stores(time_range) ==
    {[status |-> st, table |-> {}] : st \in {"no_connection", "error", "ok"}}
    \cup {[status |-> "ok",
           table |-> {[quarter_label |-> time_range.start_quarter, market_cap |-> c]}] :
              c \in {0, 1}}

SnowflakeEnvs(time_range) ==
    [store : Stores(time_range),
     charts : {{}, {"market_cap_trend"}, ChartNames},
     llm_raises : BOOLEAN]

\* the store is reachable and has no row in the time range
SnowflakeNoItems(time_range, env) ==
    env.store.status = "ok" /\ get_valuation_metrics(time_range, env.store) = <<>>

\* variant: an empty list of metrics is not tested for, and the first row is
\* read from it
SnowflakeTry_no_empty_check(query, time_range, env) ==
    LET metrics == get_valuation_metrics(time_range, env.store)
    IN IF metrics = <<>>
       THEN Raised("list index out of range")
       ELSE IF metrics[1].market_cap = 0
       THEN Raised("division by zero")
       ELSE IF env.llm_raises
       THEN Raised("llm")
       ELSE Returned(AgentResponse(SNOWFLAKE, LLMContent(SNOWFLAKE),
               [charts |-> env.charts,
                metrics_count |-> Len(metrics),
                time_range |-> [start |-> time_range.start_quarter,
                                end |-> time_range.end_quarter]]))

\* the body of the try block of SnowflakeAgent.process_query
SnowflakeTry(query, time_range, env) ==
    LET metrics == get_valuation_metrics(time_range, env.store)
    IN IF metrics = <<>>
       THEN Returned(AgentResponse(SNOWFLAKE, SNOWFLAKE_NO_DATA, NoneDict))
       ELSE IF metrics[1].market_cap = 0
       THEN Raised("division by zero")
       ELSE IF env.llm_raises
       THEN Raised("llm")
       ELSE Returned(AgentResponse(SNOWFLAKE, LLMContent(SNOWFLAKE),
               [charts |-> env.charts,
                metrics_count |-> Len(metrics),
                time_range |-> [start |-> time_range.start_quarter,
                                end |-> time_range.end_quarter]]))

\* SnowflakeAgent.process_query
SnowflakeProcessQuery(query, time_range, env) ==
    LET t == SnowflakeTry(query, time_range, env)
    IN IF t.raised
       THEN Returned(AgentResponse(SNOWFLAKE, SNOWFLAKE_ERROR, NoneDict))
       ELSE t

\* ------------------------------------------------------------ WebSearchAgent
\* What the search service answers, each a list of the items' sources
\* (WebSearchService.search returns [] when the request fails)
WebLists == {<<>>, <<"reuters">>}

WebEnvs ==
    [general : WebLists, financial : WebLists, trending : WebLists,
     llm_raises : BOOLEAN]

\* every search of the agent comes back with no item
WebNoItems(env) ==
    env.general = <<>> /\ env.financial = <<>> /\ env.trending = <<>>

\* variant: the no-results answer is given only when the three searches are
\* all empty
WebSearchTry_all_three_empty(query, time_range, env) ==
    IF env.general = <<>> /\ env.financial = <<>> /\ env.trending = <<>>
    THEN Returned(AgentResponse(WEB_SEARCH, WEB_NO_RESULTS, NoneDict))
    ELSE IF env.llm_raises
    THEN Raised("llm")
    ELSE Returned(AgentResponse(WEB_SEARCH, LLMContent(WEB_SEARCH),
            [sources |-> env.general,
             result_count |-> Len(env.general) + Len(env.financial) + Len(env.trending)]))

\* the body of the try block of WebSearchAgent.process_query
WebSearchTry(query, time_range, env) ==
    IF env.general = <<>>
    THEN Returned(AgentResponse(WEB_SEARCH, WEB_NO_RESULTS, NoneDict))
    ELSE IF env.llm_raises
    THEN Raised("llm")
    ELSE Returned(AgentResponse(WEB_SEARCH, LLMContent(WEB_SEARCH),
            [sources |-> env.general,
             result_count |-> Len(env.general) + Len(env.financial) + Len(env.trending)]))

\* variant: the except branch is missing, the exception leaves process_query
WebSearchProcessQuery_reraise(query, time_range, env) ==
    WebSearchTry(query, time_range, env)

\* WebSearchAgent.process_query
WebSearchProcessQuery(query, time_range, env) ==
    LET t == WebSearchTry(query, time_range, env)
    IN IF t.raised
       THEN Returned(AgentResponse(WEB_SEARCH, WEB_ERROR, NoneDict))
       ELSE t

\* ------------------------------------------------------------ orchestrator
VARIABLES
    pc,         \* where the process_agent_request call is: "idle", a node of
                \* the graph, "END" (ainvoke returned) or "done" (call returned)
    request,    \* the AgentRequest of the call
    state,      \* the state dict the graph hands from node to node
    ret,        \* what process_agent_request returned
    log         \* the calls made so far, in order: a node of the graph (exc:
                \* the except branch of the agent, or of the combiner, ran) or
                \* the combiner's llm.ainvoke (exc: it raised; input: the
                \* blocks of combined_input)

vars == <<pc, request, state, ret, log>>

\* initial_state of process_agent_request
InitialState(req) ==
    [query |-> req.query,
     agents |-> req.agents,
     time_range |-> req.time_range,
     agent_responses |-> <<>>,
     combined_response |-> None,
     error |-> None]

\* _start_node: agent_responses is always a key of the initial state
start_node(s) == s

\* variant: a reversed time range sends the run straight to the combiner
route_from_start_checks_range(s) ==
    IF s.agents = <<>> \/ QuarterLess(s.time_range.end_quarter, s.time_range.start_quarter)
    THEN "end"
    ELSE IF InList(RAG, s.agents) THEN "rag"
    ELSE IF InList(SNOWFLAKE, s.agents) THEN "snowflake"
    ELSE IF InList(WEB_SEARCH, s.agents) THEN "web_search"
    ELSE "end"

\* variant: an empty query sends the run straight to the combiner
route_from_start_checks_query(s) ==
    IF s.agents = <<>> \/ s.query = ""
    THEN "end"
    ELSE IF InList(RAG, s.agents) THEN "rag"
    ELSE IF InList(SNOWFLAKE, s.agents) THEN "snowflake"
    ELSE IF InList(WEB_SEARCH, s.agents) THEN "web_search"
    ELSE "end"

\* _route_from_start
route_from_start(s) ==
    IF s.agents = <<>> THEN "end"
    ELSE IF InList(RAG, s.agents) THEN "rag"
    ELSE IF InList(SNOWFLAKE, s.agents) THEN "snowflake"
    ELSE IF InList(WEB_SEARCH, s.agents) THEN "web_search"
    ELSE "end"

\* variant: a failed rag step ends the run
route_after_rag_stop_on_error(s) ==
    IF DictHas(s.agent_responses, "rag") /\ DictGet(s.agent_responses, "rag").content = RAG_ERROR
    THEN "end"
    ELSE IF InList(SNOWFLAKE, s.agents) THEN "snowflake"
    ELSE IF InList(WEB_SEARCH, s.agents) THEN "web_search"
    ELSE "end"

\* _route_after_rag
route_after_rag(s) ==
    IF InList(SNOWFLAKE, s.agents) THEN "snowflake"
    ELSE IF InList(WEB_SEARCH, s.agents) THEN "web_search"
    ELSE "end"

\* variant: the membership test on the requested agents is lost
route_after_snowflake_always_web(s) == "web_search"

\* _route_after_snowflake
route_after_snowflake(s) ==
    IF InList(WEB_SEARCH, s.agents) THEN "web_search"
    ELSE "end"

\* variant: the snowflake node's web_search edge is wired back to itself
EdgeTarget_miswired(from, label) ==
    CASE label = "rag" /\ from = "start" -> "rag_agent"
      [] label = "snowflake" /\ from \in {"start", "rag_agent"} -> "snowflake_agent"
      [] label = "web_search" /\ from \in {"start", "rag_agent"} -> "web_search_agent"
      [] label = "web_search" /\ from = "snowflake_agent" -> "snowflake_agent"
      [] label = "end" -> "combiner"

\* the path maps of the conditional edges of _build_graph: from start, from
\* rag_agent and from snowflake_agent
EdgeTarget(from, label) ==
    CASE label = "rag" /\ from = "start" -> "rag_agent"
      [] label = "snowflake" /\ from \in {"start", "rag_agent"} -> "snowflake_agent"
      [] label = "web_search" /\ from \in {"start", "rag_agent", "snowflake_agent"}
            -> "web_search_agent"
      [] label = "end" -> "combiner"

\* _run_rag_agent, given what awaiting rag_agent.process_query gave
run_rag_agent(s, awaited) ==
    IF ~awaited.raised
    THEN [s EXCEPT !.agent_responses = DictSet(@, "rag", awaited.value)]
    ELSE [s EXCEPT !.error = "RAG agent error"]

\* variant: the except branch starts from a state without the earlier responses
run_snowflake_agent_fresh_on_error(s, awaited) ==
    IF ~awaited.raised
    THEN [s EXCEPT !.agent_responses = DictSet(@, "snowflake", awaited.value)]
    ELSE [s EXCEPT !.error = "Snowflake agent error", !.agent_responses = <<>>]

\* variant: the response is put in front of the earlier ones
run_snowflake_agent_front(s, awaited) ==
    IF ~awaited.raised
    THEN [s EXCEPT !.agent_responses = <<[k |-> "snowflake", v |-> awaited.value]>> \o @]
    ELSE [s EXCEPT !.error = "Snowflake agent error"]

\* _run_snowflake_agent
run_snowflake_agent(s, awaited) ==
    IF ~awaited.raised
    THEN [s EXCEPT !.agent_responses = DictSet(@, "snowflake", awaited.value)]
    ELSE [s EXCEPT !.error = "Snowflake agent error"]

\* variant: the response of the web search agent is stored under the key rag
run_web_search_agent_under_rag(s, awaited) ==
    IF ~awaited.raised
    THEN [s EXCEPT !.agent_responses = DictSet(@, "rag", awaited.value)]
    ELSE [s EXCEPT !.error = "Web Search agent error"]

\* _run_web_search_agent
run_web_search_agent(s, awaited) ==
    IF ~awaited.raised
    THEN [s EXCEPT !.agent_responses = DictSet(@, "web_search", awaited.value)]
    ELSE [s EXCEPT !.error = "Web Search agent error"]

\* variant: the blocks are made in the order the dict holds its entries
RECURSIVE CombinedInput_insertion_order(_)
CombinedInput_insertion_order(agent_responses) ==
    IF agent_responses = <<>> THEN <<>>
    ELSE <<[label |-> CASE agent_responses[1].k = "rag" -> "Historical Performance (RAG Agent)"
                        [] agent_responses[1].k = "snowflake" -> "Financial Metrics (Snowflake Agent)"
                        [] OTHER -> "Real-time Insights (Web Search Agent)",
            content |-> agent_responses[1].v.content]>>
         \o CombinedInput_insertion_order(Tail(agent_responses))

\* the labelled blocks _combine_responses joins into combined_input
CombinedInput(agent_responses) ==
    (IF DictHas(agent_responses, "rag")
     THEN <<[label |-> "Historical Performance (RAG Agent)",
             content |-> DictGet(agent_responses, "rag").content]>>
     ELSE <<>>)
    \o (IF DictHas(agent_responses, "snowflake")
        THEN <<[label |-> "Financial Metrics (Snowflake Agent)",
                content |-> DictGet(agent_responses, "snowflake").content]>>
        ELSE <<>>)
    \o (IF DictHas(agent_responses, "web_search")
        THEN <<[label |-> "Real-time Insights (Web Search Agent)",
                content |-> DictGet(agent_responses, "web_search").content]>>
        ELSE <<>>)

\* does _combine_responses call the language model
CombineCallsLLM(s) == s.agent_responses # <<>>

\* variant: the test for an empty agent_responses is missing
combine_responses_no_empty_check(s, llm_raises) ==
    IF llm_raises
    THEN [s EXCEPT !.error = "Error combining responses",
                   !.combined_response = COMBINE_ERROR]
    ELSE [s EXCEPT !.combined_response = LLMContent("combiner")]

\* variant: the except branch starts again from an empty state
combine_responses_reset_on_error(s, llm_raises) ==
    IF s.agent_responses = <<>>
    THEN [s EXCEPT !.combined_response = NO_RESPONSES]
    ELSE IF llm_raises
    THEN [s EXCEPT !.error = "Error combining responses",
                   !.agent_responses = <<>>,
                   !.combined_response = COMBINE_ERROR]
    ELSE [s EXCEPT !.combined_response = LLMContent("combiner")]

\* variant: a single response is handed on as the combined response, with no
\* generation call
combine_responses_pass_through(s, llm_raises) ==
    IF s.agent_responses = <<>>
    THEN [s EXCEPT !.combined_response = NO_RESPONSES]
    ELSE IF Len(s.agent_responses) = 1
    THEN [s EXCEPT !.combined_response = s.agent_responses[1].v.content]
    ELSE IF llm_raises
    THEN [s EXCEPT !.error = "Error combining responses",
                   !.combined_response = COMBINE_ERROR]
    ELSE [s EXCEPT !.combined_response = LLMContent("combiner")]

\* _combine_responses, llm_raises telling whether llm.ainvoke raises
combine_responses(s, llm_raises) ==
    IF s.agent_responses = <<>>
    THEN [s EXCEPT !.combined_response = NO_RESPONSES]
    ELSE IF llm_raises
    THEN [s EXCEPT !.error = "Error combining responses",
                   !.combined_response = COMBINE_ERROR]
    ELSE [s EXCEPT !.combined_response = LLMContent("combiner")]

\* response_dict of process_agent_request
ResponseDict(req, result) ==
    [query |-> req.query,
     time_range |-> [start |-> req.time_range.start_quarter,
                     end |-> req.time_range.end_quarter],
     agent_responses |-> result.agent_responses,
     combined_response |-> result.combined_response]

Init ==
    /\ pc = "idle"
    /\ request = NoneDict
    /\ state = NoneDict
    /\ ret = NoneDict
    /\ log = <<>>

\* agent_query receives a request; process_agent_request builds the initial
\* state and starts the graph
process_agent_request ==
    /\ pc = "idle"
    /\ \E req \in AgentRequest :
        /\ request' = req
        /\ state' = InitialState(req)
    /\ pc' = "start"
    /\ UNCHANGED <<ret, log>>

\* node start and its conditional edge
StartNode ==
    /\ pc = "start"
    /\ state' = start_node(state)
    /\ pc' = EdgeTarget("start", route_from_start(state'))
    /\ UNCHANGED <<request, ret, log>>

\* node rag_agent and its conditional edge
RagAgentNode ==
    /\ pc = "rag_agent"
    /\ \E env \in RagEnvs(state.time_range) :
        /\ state' = run_rag_agent(state,
                        RAGProcessQuery(state.query, state.time_range, env))
        /\ log' = Append(log, [node |-> "rag_agent",
                        exc |-> RAGTry(state.query, state.time_range, env).raised,
                        empty |-> RagNoItems(env)])
    /\ pc' = EdgeTarget("rag_agent", route_after_rag(state'))
    /\ UNCHANGED <<request, ret>>

\* node snowflake_agent and its conditional edge
SnowflakeAgentNode ==
    /\ pc = "snowflake_agent"
    /\ \E env \in SnowflakeEnvs(state.time_range) :
        /\ state' = run_snowflake_agent(state,
                        SnowflakeProcessQuery(state.query, state.time_range, env))
        /\ log' = Append(log, [node |-> "snowflake_agent",
                        exc |-> SnowflakeTry(state.query, state.time_range, env).raised,
                        empty |-> SnowflakeNoItems(state.time_range, env)])
    /\ pc' = EdgeTarget("snowflake_agent", route_after_snowflake(state'))
    /\ UNCHANGED <<request, ret>>

\* node web_search_agent and its edge to the combiner
WebSearchAgentNode ==
    /\ pc = "web_search_agent"
    /\ \E env \in WebEnvs :
        /\ state' = run_web_search_agent(state,
                        WebSearchProcessQuery(state.query, state.time_range, env))
        /\ log' = Append(log, [node |-> "web_search_agent",
                        exc |-> WebSearchTry(state.query, state.time_range, env).raised,
                        empty |-> WebNoItems(env)])
    /\ pc' = "combiner"
    /\ UNCHANGED <<request, ret>>

\* node combiner and its edge to END
CombinerNode ==
    /\ pc = "combiner"
    /\ \E llm_raises \in BOOLEAN :
        /\ state' = combine_responses(state, llm_raises)
        /\ log' = IF CombineCallsLLM(state)
                  THEN log \o <<[node |-> "llm", exc |-> llm_raises,
                                 input |-> CombinedInput(state.agent_responses)],
                                [node |-> "combiner", exc |-> llm_raises]>>
                  ELSE Append(log, [node |-> "combiner", exc |-> FALSE])
    /\ pc' = "END"
    /\ UNCHANGED <<request, ret>>

\* ainvoke returned: process_agent_request formats and returns the response
ReturnResponse ==
    /\ pc = "END"
    /\ ret' = ResponseDict(request, state)
    /\ pc' = "done"
    /\ UNCHANGED <<request, state, log>>

Next ==
    \/ process_agent_request
    \/ StartNode
    \/ RagAgentNode
    \/ SnowflakeAgentNode
    \/ WebSearchAgentNode
    \/ CombinerNode
    \/ ReturnResponse

Spec == Init /\ [][Next]_vars

\* ------------------------------------------------------------ properties
\* the providers the request names, the keys of a results dict, the nodes run
Requested == {request.agents[i] : i \in 1..Len(request.agents)}
Keys(d) == {d[i].k : i \in 1..Len(d)}
Ran == {log[i].node : i \in 1..Len(log)}
Concrete == {RAG, SNOWFLAKE, WEB_SEARCH}
NodeOf(a) == CASE a = RAG -> "rag_agent"
               [] a = SNOWFLAKE -> "snowflake_agent"
               [] a = WEB_SEARCH -> "web_search_agent"

\* C1: a call whose requested providers are exactly {all} ends with results
\* under exactly the three keys rag, snowflake and web_search, each once.
C1_AllGivesThreeKeys ==
    (pc = "done" /\ Requested = {ALL}) =>
        /\ Keys(ret.agent_responses) = Concrete
        /\ Len(ret.agent_responses) = 3

\* C2: when the request names only concrete providers (set S), no node of a
\* provider outside S ever runs, and the returned results have exactly the
\* keys S.
C2_SubsetKeysExact ==
    (pc # "idle" /\ ALL \notin Requested) =>
        /\ \A a \in Concrete : NodeOf(a) \in Ran => a \in Requested
        /\ Keys(state.agent_responses) \subseteq Requested
        /\ pc = "done" => Keys(ret.agent_responses) = Requested

C2_Witness ==
    /\ pc = "done"
    /\ Requested = {RAG, WEB_SEARCH}
    /\ Keys(ret.agent_responses) = {RAG, WEB_SEARCH}
    /\ "snowflake_agent" \notin Ran

\* the nodes of the three providers, and whether one of them hit an exception
AgentNodes == {"rag_agent", "snowflake_agent", "web_search_agent"}
ProviderRaised(n) == \E i \in 1..Len(log) : log[i].node = n /\ log[i].exc

\* C3: once the invocation of a provider has raised, the call still goes on:
\* it is never stuck, and when it returns every requested provider has run,
\* the combiner has run and the combined response is not None.
C3_FailureIsolation ==
    (\E n \in AgentNodes : ProviderRaised(n)) =>
        /\ pc # "done" => ENABLED Next
        /\ pc = "done" =>
            /\ \A a \in Requested \cap Concrete : NodeOf(a) \in Ran
            /\ "combiner" \in Ran
            /\ ret.combined_response # None

C3_Witness ==
    /\ pc = "done"
    /\ Requested = Concrete
    /\ ProviderRaised("rag_agent")
    /\ {"snowflake_agent", "web_search_agent", "combiner"} \subseteq Ran
    /\ ret.combined_response # None

\* the error text of each agent's except branch
ErrorText(a) == CASE a = RAG -> RAG_ERROR
                  [] a = SNOWFLAKE -> SNOWFLAKE_ERROR
                  [] a = WEB_SEARCH -> WEB_ERROR

\* C4 (as stated): when a provider invocation fails with an exception, the
\* returned results hold, under that provider's key, an entry marked
\* failed = true with a non-empty error_message.
C4_FailedEntryFlagged ==
    pc = "done" =>
        \A a \in Concrete : ProviderRaised(NodeOf(a)) =>
            /\ DictHas(ret.agent_responses, a)
            /\ LET r == DictGet(ret.agent_responses, a)
               IN /\ "failed" \in DOMAIN r
                  /\ r.failed = TRUE
                  /\ "error_message" \in DOMAIN r
                  /\ r.error_message # ""

\* C4 (amended): when a provider invocation fails with an exception, the
\* results hold, under that provider's own key, an AgentResponse of that
\* provider whose content is the provider's non-empty error text and whose
\* data is None; the response has no failed flag and no error_message.
C4_ErrorTextStored ==
    pc # "idle" =>
        \A a \in Concrete : ProviderRaised(NodeOf(a)) =>
            /\ DictHas(state.agent_responses, a)
            /\ LET r == DictGet(state.agent_responses, a)
               IN /\ DOMAIN r = {"agent_type", "content", "data"}
                  /\ r.agent_type = a
                  /\ r.content = ErrorText(a)
                  /\ r.content # ""
                  /\ r.data = NoneDict
            /\ pc = "done" =>
                /\ DictHas(ret.agent_responses, a)
                /\ DictGet(ret.agent_responses, a) = DictGet(state.agent_responses, a)

C4_Witness ==
    /\ pc = "done"
    /\ ProviderRaised("web_search_agent")
    /\ ~ProviderRaised("rag_agent")
    /\ DictHas(ret.agent_responses, RAG)
    /\ DictHas(ret.agent_responses, WEB_SEARCH)
    /\ DictGet(ret.agent_responses, WEB_SEARCH).content = WEB_ERROR

\* position of a provider in the order rag, snowflake, web_search
Rank(k) == CASE k = RAG -> 1 [] k = SNOWFLAKE -> 2 [] k = WEB_SEARCH -> 3 [] OTHER -> 0
Canonical(keys) ==
    \A i, j \in 1..Len(keys) : i < j => (0 < Rank(keys[i]) /\ Rank(keys[i]) < Rank(keys[j]))

\* C5: in every state of a call, the keys of the results, in insertion order,
\* are a subsequence of rag, snowflake, web_search.
C5_CanonicalOrder ==
    pc # "idle" =>
        /\ Canonical(DictKeys(state.agent_responses))
        /\ pc = "done" => Canonical(DictKeys(ret.agent_responses))

C5_Witness ==
    /\ pc = "done"
    /\ request.agents = <<WEB_SEARCH, SNOWFLAKE, RAG>>
    /\ DictKeys(ret.agent_responses) = <<RAG, SNOWFLAKE, WEB_SEARCH>>

\* number of times a node ran
TimesRun(n) == Cardinality({i \in 1..Len(log) : log[i].node = n})

\* C6: within one call each provider is invoked at most once, also when it
\* is listed more than once and also when its step failed.
C6_AtMostOnce ==
    \A n \in AgentNodes : TimesRun(n) <= 1

C6_Witness ==
    /\ pc = "done"
    /\ request.agents = <<SNOWFLAKE, SNOWFLAKE, WEB_SEARCH>>
    /\ ProviderRaised("snowflake_agent")
    /\ TimesRun("snowflake_agent") = 1
    /\ TimesRun("web_search_agent") = 1

\* the request's time range runs backwards under (year, quarter) ordering
ReversedRange ==
    QuarterLess(request.time_range.end_quarter, request.time_range.start_quarter)

\* a call is under way or over, and it is not blocked before its return
NotStuck == pc \notin {"idle", "done"} => ENABLED Next

\* what a returned call has, whatever the request: a result under the key of
\* every requested concrete provider, each of which ran, and a combined
\* response that is not None
ServedInFull ==
    /\ Keys(ret.agent_responses) = Requested \cap Concrete
    /\ \A a \in Requested \cap Concrete : NodeOf(a) \in Ran
    /\ "combiner" \in Ran
    /\ ret.combined_response # None

\* C7 (as stated): a request with start_quarter after end_quarter is rejected
\* before any provider is invoked: no provider node, no combiner and no
\* generation call runs and the call does not return a response.
C7_ReversedRangeRejected ==
    (pc # "idle" /\ ReversedRange) => (log = <<>> /\ pc # "done")

\* C7 (amended): a request with start_quarter after end_quarter is not
\* rejected: the call raises nothing, runs every requested concrete provider
\* and returns their results with a combined response.
C7_ReversedRangeServed ==
    (pc # "idle" /\ ReversedRange) =>
        /\ NotStuck
        /\ pc = "done" => ServedInFull

C7_Witness ==
    /\ pc = "done"
    /\ ReversedRange
    /\ Requested = {RAG, SNOWFLAKE}
    /\ Keys(ret.agent_responses) = {RAG, SNOWFLAKE}
    /\ DictGet(ret.agent_responses, SNOWFLAKE).content = SNOWFLAKE_NO_DATA

\* C8 (as stated): a request with an empty query is rejected with no provider
\* invoked.
C8_EmptyQueryRejected ==
    (pc # "idle" /\ request.query = "") =>
        (Ran \cap AgentNodes = {} /\ pc # "done")

\* C8 (amended): a request with an empty query is not rejected and the call
\* propagates no failure at all: every requested concrete provider is invoked
\* with the empty query and the call returns their results with a combined
\* response, also when a provider or the generation call of the combiner
\* raised.
C8_EmptyQueryServed ==
    (pc # "idle" /\ request.query = "") =>
        /\ NotStuck
        /\ state.query = ""
        /\ pc = "done" => (ServedInFull /\ ret.query = "")

C8_Witness ==
    /\ pc = "done"
    /\ request.query = ""
    /\ Requested = {RAG, WEB_SEARCH}
    /\ Keys(ret.agent_responses) = {RAG, WEB_SEARCH}
    /\ ProviderRaised("rag_agent")
    /\ ret.combined_response = COMBINE_ERROR

\* C9: with no agent requested and a non-empty query the run goes from start
\* to the combiner, no provider and no generation call runs, and the call
\* returns empty results with the text "No responses from any agents.".
C9_EmptySelection ==
    (pc # "idle" /\ request.agents = <<>> /\ request.query # "") =>
        /\ pc \in {"start", "combiner", "END", "done"}
        /\ Ran \subseteq {"combiner"}
        /\ NotStuck
        /\ pc \in {"END", "done"} =>
            /\ state.agent_responses = <<>>
            /\ state.combined_response = NO_RESPONSES
        /\ pc = "done" =>
            /\ ret.agent_responses = <<>>
            /\ ret.combined_response = NO_RESPONSES
            /\ DOMAIN ret = {"query", "time_range", "agent_responses", "combined_response"}

C9_Witness ==
    /\ pc = "done"
    /\ request.agents = <<>>
    /\ request.query = "q"
    /\ log = <<[node |-> "combiner", exc |-> FALSE]>>
    /\ ret.combined_response = NO_RESPONSES

\* the generation call of the combiner raised in this step
CombinerLLMFails ==
    /\ pc = "combiner"
    /\ Len(log') = Len(log) + 2
    /\ log'[Len(log) + 1].node = "llm"
    /\ log'[Len(log) + 1].exc

\* C10: when the generation call of the combiner raises, the run still ends:
\* the combined response is the fixed text "Error combining agent responses."
\* and the results gathered before the combiner are kept as they were, in the
\* state and in the response the call returns.
C10_SynthesisFallback ==
    [][/\ CombinerLLMFails =>
            /\ pc' = "END"
            /\ state'.combined_response = COMBINE_ERROR
            /\ state'.agent_responses = state.agent_responses
       /\ (pc = "END" /\ state.error = "Error combining responses") =>
            /\ pc' = "done"
            /\ ret'.combined_response = COMBINE_ERROR
            /\ ret'.agent_responses = state.agent_responses]_vars

C10_Witness ==
    /\ pc = "done"
    /\ \E i \in 1..Len(log) : log[i].node = "llm" /\ log[i].exc
    /\ ret.combined_response = COMBINE_ERROR
    /\ Keys(ret.agent_responses) = Concrete

\* ------------------------------------------------ failure of the graph engine
\* the dict the except branch of process_agent_request returns
ErrorDict(req, e) ==
    [error |-> e,
     query |-> req.query,
     time_range |-> [start |-> req.time_range.start_quarter,
                     end |-> req.time_range.end_quarter]]

\* graph.ainvoke raises while the run is at one of the nodes of the graph (an
\* exception of the engine itself, none of a node: the nodes catch their own);
\* the except branch of process_agent_request returns the error dict
EngineRaises ==
    /\ pc \in {"start", "rag_agent", "snowflake_agent", "web_search_agent", "combiner"}
    /\ ret' = ErrorDict(request, "engine error")
    /\ pc' = "done"
    /\ UNCHANGED <<request, state, log>>

NextEngine ==
    \/ Next
    \/ EngineRaises

SpecEngine == Init /\ [][NextEngine]_vars

\* C11: every call that returns hands back a structured result holding both
\* the per-provider results map (agent_responses) and a combined response
\* that is not None, whatever the providers, the graph engine and the
\* generation service do.
C11_StructuredResultAlways ==
    pc = "done" =>
        /\ "agent_responses" \in DOMAIN ret
        /\ "combined_response" \in DOMAIN ret
        /\ ret.combined_response # None

\* ------------------------------------------------ two calls on one orchestrator
\* Two process_agent_request calls in flight on the one orchestrator of
\* main.py.  In SpecConcurrent the variables hold one value per call:
\*   pc[c], request[c], ret[c]   as in Spec, for call c
\*   state.frame[c]   the state dict of call c, its agent_responses being the
\*                    address of a dict object
\*   state.heap       the dict objects: state.copy() is a shallow copy, so the
\*                    nodes of one run all write into the one agent_responses
\*                    object their initial state was given
\*   log[c]           written: the [key, response] pairs the nodes of call c
\*                    stored; synth: the text the combiner of call c produced
\* The objects the calls share (the agents, their services, the llm, the
\* compiled graph) are not written after construction and process_query works
\* on locals only, so a step per node is as fine as the interleaving gets.
Calls == {1, 2}

\* the requests of call c: the two calls ask different queries
ConcRequests(c) ==
    {r \in AgentRequest :
        /\ r.query = (IF c = 1 THEN "" ELSE "q")
        /\ r.agents \in {<<RAG>>, <<SNOWFLAKE, WEB_SEARCH>>}
        /\ r.time_range.start_quarter = r.time_range.end_quarter}

\* variant: the {} of initial_state is one dict object shared by every call
NewDict_shared(heap) == 1

\* the address of the dict object the display {} of initial_state creates
NewDict(heap) == Len(heap) + 1

\* the state dict of call c with its agent_responses object read from the heap
Deref(c) == [state.frame[c] EXCEPT !.agent_responses = state.heap[@]]

\* the node of call c returned the dict s: the frame keeps the address of its
\* agent_responses object, the object takes the content s gives it
Stored(c, s) ==
    LET addr == state.frame[c].agent_responses
    IN [frame |-> [state.frame EXCEPT ![c] = [s EXCEPT !.agent_responses = addr]],
        heap |-> [state.heap EXCEPT ![addr] = s.agent_responses]]

\* what a node that stored its response under key adds to log[c].written
Written(c, key, s) ==
    [log EXCEPT ![c].written = Append(@, [k |-> key, v |-> DictGet(s.agent_responses, key)])]

InitConcurrent ==
    /\ pc = [c \in Calls |-> "idle"]
    /\ request = [c \in Calls |-> NoneDict]
    /\ state = [frame |-> [c \in Calls |-> NoneDict], heap |-> <<>>]
    /\ ret = [c \in Calls |-> NoneDict]
    /\ log = [c \in Calls |-> [written |-> <<>>, synth |-> None]]

ConcProcessAgentRequest(c) ==
    /\ pc[c] = "idle"
    /\ \E req \in ConcRequests(c) :
        LET addr == NewDict(state.heap)
        IN /\ request' = [request EXCEPT ![c] = req]
           /\ state' = [frame |-> [state.frame EXCEPT ![c] =
                                    [InitialState(req) EXCEPT !.agent_responses = addr]],
                        heap |-> IF addr > Len(state.heap)
                                 THEN Append(state.heap, <<>>)
                                 ELSE state.heap]
    /\ pc' = [pc EXCEPT ![c] = "start"]
    /\ UNCHANGED <<ret, log>>

ConcStartNode(c) ==
    /\ pc[c] = "start"
    /\ state' = Stored(c, start_node(Deref(c)))
    /\ pc' = [pc EXCEPT ![c] = EdgeTarget("start", route_from_start(start_node(Deref(c))))]
    /\ UNCHANGED <<request, ret, log>>

ConcRagAgentNode(c) ==
    /\ pc[c] = "rag_agent"
    /\ \E env \in RagEnvs(Deref(c).time_range) :
        LET s == run_rag_agent(Deref(c),
                    RAGProcessQuery(Deref(c).query, Deref(c).time_range, env))
        IN /\ state' = Stored(c, s)
           /\ log' = Written(c, "rag", s)
           /\ pc' = [pc EXCEPT ![c] = EdgeTarget("rag_agent", route_after_rag(s))]
    /\ UNCHANGED <<request, ret>>

ConcSnowflakeAgentNode(c) ==
    /\ pc[c] = "snowflake_agent"
    /\ \E env \in SnowflakeEnvs(Deref(c).time_range) :
        LET s == run_snowflake_agent(Deref(c),
                    SnowflakeProcessQuery(Deref(c).query, Deref(c).time_range, env))
        IN /\ state' = Stored(c, s)
           /\ log' = Written(c, "snowflake", s)
           /\ pc' = [pc EXCEPT ![c] = EdgeTarget("snowflake_agent", route_after_snowflake(s))]
    /\ UNCHANGED <<request, ret>>

ConcWebSearchAgentNode(c) ==
    /\ pc[c] = "web_search_agent"
    /\ \E env \in WebEnvs :
        LET s == run_web_search_agent(Deref(c),
                    WebSearchProcessQuery(Deref(c).query, Deref(c).time_range, env))
        IN /\ state' = Stored(c, s)
           /\ log' = Written(c, "web_search", s)
    /\ pc' = [pc EXCEPT ![c] = "combiner"]
    /\ UNCHANGED <<request, ret>>

ConcCombinerNode(c) ==
    /\ pc[c] = "combiner"
    /\ \E llm_raises \in BOOLEAN :
        LET s == combine_responses(Deref(c), llm_raises)
        IN /\ state' = Stored(c, s)
           /\ log' = [log EXCEPT ![c].synth = s.combined_response]
    /\ pc' = [pc EXCEPT ![c] = "END"]
    /\ UNCHANGED <<request, ret>>

ConcReturnResponse(c) ==
    /\ pc[c] = "END"
    /\ ret' = [ret EXCEPT ![c] = ResponseDict(request[c], Deref(c))]
    /\ pc' = [pc EXCEPT ![c] = "done"]
    /\ UNCHANGED <<request, state, log>>

NextConcurrent ==
    \E c \in Calls :
        \/ ConcProcessAgentRequest(c)
        \/ ConcStartNode(c)
        \/ ConcRagAgentNode(c)
        \/ ConcSnowflakeAgentNode(c)
        \/ ConcWebSearchAgentNode(c)
        \/ ConcCombinerNode(c)
        \/ ConcReturnResponse(c)

SpecConcurrent == InitConcurrent /\ [][NextConcurrent]_vars

\* C12: with two calls in flight on one orchestrator, interleaved at any
\* node, the state of each call holds the query and time range of its own
\* request and exactly the results its own nodes stored, and the response it
\* returns holds its own query, those results and the text its own combiner
\* produced: nothing written for one call is visible in the other.
C12_CallsIsolated ==
    \A c \in Calls : pc[c] # "idle" =>
        /\ Deref(c).query = request[c].query
        /\ Deref(c).time_range = request[c].time_range
        /\ Deref(c).agent_responses = log[c].written
        /\ Deref(c).combined_response = log[c].synth
        /\ pc[c] = "done" =>
            /\ ret[c].query = request[c].query
            /\ ret[c].agent_responses = log[c].written
            /\ ret[c].combined_response = log[c].synth

C12_Witness ==
    /\ pc[1] = "done" /\ pc[2] = "web_search_agent"
    /\ request[1].agents = <<RAG>> /\ request[2].agents = <<SNOWFLAKE, WEB_SEARCH>>
    /\ request[1].query # request[2].query
    /\ DictKeys(ret[1].agent_responses) = <<RAG>>
    /\ DictKeys(Deref(2).agent_responses) = <<SNOWFLAKE>>
    /\ Len(state.heap) = 2

\* ------------------------------------------------ a backend that never answers
\* An external call of the node the run is at never responds: requests.get of
\* WebSearchService.search, the cursor of SnowflakeService.execute_query, the
\* index queries of PineconeService and llm.ainvoke are all made without a
\* timeout and nothing wraps them in one (no asyncio.wait_for, no timeout
\* argument), so the coroutine of the node stays suspended and the run with it.
BackendHangs ==
    /\ \/ pc \in {"rag_agent", "snowflake_agent", "web_search_agent"}
       \/ pc = "combiner" /\ CombineCallsLLM(state)
    /\ pc' = "blocked"
    /\ UNCHANGED <<request, state, ret, log>>

NextHang ==
    \/ Next
    \/ BackendHangs

\* the event loop runs whatever coroutine can make a step
SpecHang == Init /\ [][NextHang]_vars /\ WF_vars(NextHang)

\* C13: every call that was started eventually returns, also when one
\* backend never responds.
C13_EventuallyTerminal == (pc = "start") ~> (pc = "done")

\* ------------------------------------------------ empty evidence
\* the step of provider a found its backend reachable and empty
BackendEmpty(a) == \E i \in 1..Len(log) : log[i].node = NodeOf(a) /\ log[i].empty

\* the texts an agent answers with when it has nothing to report
NoDataTexts(a) == CASE a = RAG -> {RAG_EMPTY_DB, RAG_NO_PERIOD, RAG_NO_INFO}
                    [] a = SNOWFLAKE -> {SNOWFLAKE_NO_DATA}
                    [] a = WEB_SEARCH -> {WEB_NO_RESULTS}

\* C14 (as stated): when the backend of a provider is reachable and returns
\* zero items, the result stored under the provider's key is marked
\* failed = false and carries explanatory no-data content.
C14_EmptyMarkedNotFailed ==
    pc = "done" =>
        \A a \in Concrete : BackendEmpty(a) =>
            /\ DictHas(ret.agent_responses, a)
            /\ LET r == DictGet(ret.agent_responses, a)
               IN /\ "failed" \in DOMAIN r
                  /\ r.failed = FALSE
                  /\ r.content \in NoDataTexts(a)

\* C14 (amended): when the backend of a provider is reachable and returns
\* zero items, no exception is handled in the provider's step and the result
\* stored under the provider's own key is an AgentResponse of that provider
\* whose content is one of its explanatory no-data texts, never its error
\* text, and whose data is None; the response has no failed field.
C14_EmptyIsNoDataText ==
    pc # "idle" =>
        \A a \in Concrete : BackendEmpty(a) =>
            /\ ~ProviderRaised(NodeOf(a))
            /\ DictHas(state.agent_responses, a)
            /\ LET r == DictGet(state.agent_responses, a)
               IN /\ DOMAIN r = {"agent_type", "content", "data"}
                  /\ r.agent_type = a
                  /\ r.content \in NoDataTexts(a)
                  /\ r.content # ErrorText(a)
                  /\ r.data = NoneDict
            /\ pc = "done" =>
                /\ DictHas(ret.agent_responses, a)
                /\ DictGet(ret.agent_responses, a) = DictGet(state.agent_responses, a)

C14_Witness ==
    /\ pc = "done"
    /\ \A a \in Concrete : BackendEmpty(a)
    /\ DictGet(ret.agent_responses, RAG).content = RAG_NO_INFO
    /\ DictGet(ret.agent_responses, SNOWFLAKE).content = SNOWFLAKE_NO_DATA
    /\ DictGet(ret.agent_responses, WEB_SEARCH).content = WEB_NO_RESULTS

\* ------------------------------------------------ comprehensive report
\* query of the internal request of generate_comprehensive_report
REPORT_QUERY == "Generate a comprehensive research report on NVIDIA for the specified time period"

\* the internal AgentRequest of generate_comprehensive_report
ReportAgentRequest(time_range) ==
    [query |-> REPORT_QUERY,
     agents |-> <<RAG, SNOWFLAKE, WEB_SEARCH>>,
     time_range |-> time_range]

\* ReportResponse (core/models.py)
ReportResponse(historical, financial, real_time, charts) ==
    [historical_performance |-> historical,
     financial_metrics |-> financial,
     real_time_insights |-> real_time,
     charts |-> charts]

\* d.get(key, default); the empty dict {} is the function with no key
Get(d, key, default) == IF key \in DOMAIN d THEN d[key] ELSE default

\* agent_responses[key] when result has agent_responses and the key is in it,
\* {} otherwise
ResponseOrEmpty(result, key) ==
    IF "agent_responses" \in DOMAIN result /\ DictHas(result.agent_responses, key)
    THEN DictGet(result.agent_responses, key)
    ELSE <<>>

\* the charts generate_comprehensive_report takes from the snowflake response
ChartsOf(snowflake_response) ==
    IF /\ "data" \in DOMAIN snowflake_response
       /\ snowflake_response.data # NoneDict
       /\ "charts" \in DOMAIN snowflake_response.data
    THEN snowflake_response.data.charts
    ELSE {}

\* variant: the charts are looked for in the rag response
BuildReport_charts_from_rag(result) ==
    ReportResponse(
        Get(ResponseOrEmpty(result, "rag"), "content", "No historical data available"),
        Get(ResponseOrEmpty(result, "snowflake"), "content", "No financial data available"),
        Get(ResponseOrEmpty(result, "web_search"), "content", "No real-time data available"),
        ChartsOf(ResponseOrEmpty(result, "rag")))

\* the ReportResponse generate_comprehensive_report builds from the result of
\* process_agent_request
BuildReport(result) ==
    ReportResponse(
        Get(ResponseOrEmpty(result, "rag"), "content", "No historical data available"),
        Get(ResponseOrEmpty(result, "snowflake"), "content", "No financial data available"),
        Get(ResponseOrEmpty(result, "web_search"), "content", "No real-time data available"),
        ChartsOf(ResponseOrEmpty(result, "snowflake")))

\* generate_report receives a ReportRequest; generate_comprehensive_report
\* builds the internal request and awaits process_agent_request
generate_comprehensive_report ==
    /\ pc = "idle"
    /\ \E time_range \in TimeRange :
        /\ request' = ReportAgentRequest(time_range)
        /\ state' = InitialState(ReportAgentRequest(time_range))
    /\ pc' = "start"
    /\ UNCHANGED <<ret, log>>

\* process_agent_request returned: the report is built and returned; ret
\* keeps the result next to the report made of it
ReturnReport ==
    /\ pc = "done"
    /\ ret' = [result |-> ret, report |-> BuildReport(ret)]
    /\ pc' = "reported"
    /\ UNCHANGED <<request, state, log>>

NextReport ==
    \/ generate_comprehensive_report
    \/ StartNode
    \/ RagAgentNode
    \/ SnowflakeAgentNode
    \/ WebSearchAgentNode
    \/ CombinerNode
    \/ ReturnResponse
    \/ EngineRaises
    \/ ReturnReport

SpecReport == Init /\ [][NextReport]_vars

\* the section of the report a provider's result goes to, and the text the
\* section has without one
SectionOf(report, a) == CASE a = RAG -> report.historical_performance
                          [] a = SNOWFLAKE -> report.financial_metrics
                          [] a = WEB_SEARCH -> report.real_time_insights
Placeholder(a) == CASE a = RAG -> "No historical data available"
                    [] a = SNOWFLAKE -> "No financial data available"
                    [] a = WEB_SEARCH -> "No real-time data available"

\* the run of the graph went through: its result is a response, not an error
RunCompleted == "error" \notin DOMAIN ret.result

\* C15: the report is made from one request through the orchestrator that
\* names the three providers; when the run goes through all three are
\* invoked.  The historical, metrics and real-time sections are the contents
\* of the rag, snowflake and web_search results, a section whose key is absent
\* from the result is its not-available text, and charts is exactly the
\* charts of the snowflake result's data, empty when it has none.
C15_ReportSections ==
    pc = "reported" =>
        /\ Requested = Concrete
        /\ RunCompleted =>
            /\ AgentNodes \subseteq Ran
            /\ Keys(state.agent_responses) = Concrete
        /\ \A a \in Concrete :
            SectionOf(ret.report, a) =
                IF RunCompleted /\ DictHas(state.agent_responses, a)
                THEN DictGet(state.agent_responses, a).content
                ELSE Placeholder(a)
        /\ ret.report.charts =
                IF /\ RunCompleted
                   /\ DictHas(state.agent_responses, SNOWFLAKE)
                   /\ DictGet(state.agent_responses, SNOWFLAKE).data # NoneDict
                THEN DictGet(state.agent_responses, SNOWFLAKE).data.charts
                ELSE {}

C15_Witness ==
    /\ pc = "reported"
    /\ RunCompleted
    /\ ret.report.historical_performance = RAG_NO_INFO
    /\ ret.report.financial_metrics = LLMContent(SNOWFLAKE)
    /\ ret.report.real_time_insights = WEB_ERROR
    /\ ret.report.charts = ChartNames

\* ------------------------------------------------ metrics only, no data
\* the request names the snowflake provider alone and its store, reachable,
\* had no row for the time range
MetricsOnlyNoData == pc # "idle" /\ Requested = {SNOWFLAKE} /\ BackendEmpty(SNOWFLAKE)

\* the generation calls of the combiner so far
LLMCalls == SelectSeq(log, LAMBDA e : e.node = "llm")

\* C16 (as stated): for a request naming the metrics provider alone whose
\* store returns an empty list, the results are exactly one non-failed entry
\* with the no-data text under snowflake, and the combined response is that
\* no-data text handed on directly, no generation call being made.
C16_NoDataPassedThrough ==
    (MetricsOnlyNoData /\ pc = "done") =>
        /\ DictKeys(ret.agent_responses) = <<SNOWFLAKE>>
        /\ DictGet(ret.agent_responses, SNOWFLAKE).content = SNOWFLAKE_NO_DATA
        /\ "failed" \in DOMAIN DictGet(ret.agent_responses, SNOWFLAKE)
        /\ DictGet(ret.agent_responses, SNOWFLAKE).failed = FALSE
        /\ LLMCalls = <<>>
        /\ ret.combined_response = SNOWFLAKE_NO_DATA

\* C16 (amended): for such a request the results are exactly one entry under
\* snowflake, the AgentResponse with the no-data text and data None (it has
\* no failed field), and the combiner makes one generation call over the one
\* block "Financial Metrics (Snowflake Agent)" holding the no-data text: the
\* combined response is the output of that call, or "Error combining agent
\* responses." when the call raises.
C16_NoDataThenGenerated ==
    MetricsOnlyNoData =>
        /\ state.agent_responses =
                <<[k |-> SNOWFLAKE, v |-> AgentResponse(SNOWFLAKE, SNOWFLAKE_NO_DATA, NoneDict)]>>
        /\ pc \in {"END", "done"} =>
            /\ Len(LLMCalls) = 1
            /\ LLMCalls[1].input = <<[label |-> "Financial Metrics (Snowflake Agent)",
                                      content |-> SNOWFLAKE_NO_DATA]>>
            /\ state.combined_response =
                    IF LLMCalls[1].exc THEN COMBINE_ERROR ELSE LLMContent("combiner")
        /\ pc = "done" =>
            /\ ret.agent_responses = state.agent_responses
            /\ ret.combined_response = state.combined_response

C16_Witness ==
    /\ MetricsOnlyNoData
    /\ pc = "done"
    /\ DictGet(ret.agent_responses, SNOWFLAKE).content = SNOWFLAKE_NO_DATA
    /\ ret.combined_response = LLMContent("combiner")

\* ------------------------------------------------ trend of a series
MaxSeries == 5      \* longest series of values explored

\* the values of a series (what matters is how consecutive values compare)
TrendValues == {1, 2, 3}
Series == UNION {[1..n -> TrendValues] : n \in 0..MaxSeries}

\* the texts _determine_trend returns
TREND_NOT_ENOUGH == "not enough data to determine a trend"
TREND_RISING == "clearly rising"
TREND_RISING_FLUCT == "rising overall, with fluctuation"
TREND_FALLING == "clearly falling"
TREND_FALLING_FLUCT == "falling overall, with fluctuation"
TREND_STABLE == "relatively stable, with fluctuation"

\* sum(1 for d in diffs if d > 0) and sum(1 for d in diffs if d < 0)
RECURSIVE CountPos(_)
CountPos(diffs) ==
    IF diffs = <<>> THEN 0
    ELSE (IF Head(diffs) > 0 THEN 1 ELSE 0) + CountPos(Tail(diffs))

RECURSIVE CountNeg(_)
CountNeg(diffs) ==
    IF diffs = <<>> THEN 0
    ELSE (IF Head(diffs) < 0 THEN 1 ELSE 0) + CountNeg(Tail(diffs))

\* variant: the first test compares with the negative steps, not twice them
determine_trend_no_doubling(values) ==
    IF Len(values) < 2
    THEN TREND_NOT_ENOUGH
    ELSE LET diffs == [i \in 1..(Len(values) - 1) |-> values[i + 1] - values[i]]
             pos_diffs == CountPos(diffs)
             neg_diffs == CountNeg(diffs)
         IN IF pos_diffs > neg_diffs THEN TREND_RISING
            ELSE IF pos_diffs > neg_diffs THEN TREND_RISING_FLUCT
            ELSE IF neg_diffs > pos_diffs * 2 THEN TREND_FALLING
            ELSE IF neg_diffs > pos_diffs THEN TREND_FALLING_FLUCT
            ELSE TREND_STABLE

\* SnowflakeAgent._determine_trend
determine_trend(values) ==
    IF Len(values) < 2
    THEN TREND_NOT_ENOUGH
    ELSE LET diffs == [i \in 1..(Len(values) - 1) |-> values[i + 1] - values[i]]
             pos_diffs == CountPos(diffs)
             neg_diffs == CountNeg(diffs)
         IN IF pos_diffs > neg_diffs * 2 THEN TREND_RISING
            ELSE IF pos_diffs > neg_diffs THEN TREND_RISING_FLUCT
            ELSE IF neg_diffs > pos_diffs * 2 THEN TREND_FALLING
            ELSE IF neg_diffs > pos_diffs THEN TREND_FALLING_FLUCT
            ELSE TREND_STABLE

\* In SpecTrend state is the series handed to _determine_trend and ret the
\* text it returns.
InitTrend ==
    /\ pc = "trend"
    /\ request = NoneDict
    /\ state \in Series
    /\ ret = None
    /\ log = <<>>

DetermineTrend ==
    /\ pc = "trend"
    /\ ret' = determine_trend(state)
    /\ pc' = "trend_done"
    /\ UNCHANGED <<request, state, log>>

NextTrend == DetermineTrend

SpecTrend == InitTrend /\ [][NextTrend]_vars

\* the numbers of rising and of falling steps of a series
StepsUp(values) == Cardinality({i \in 1..(Len(values) - 1) : values[i] < values[i + 1]})
StepsDown(values) == Cardinality({i \in 1..(Len(values) - 1) : values[i] > values[i + 1]})

\* C17: for a series of at least two values with p rising and n falling
\* steps the trend is: clearly rising when p > 2n; else rising with
\* fluctuation when p > n; else clearly falling when n > 2p; else falling
\* with fluctuation when n > p; else relatively stable.  So (3,1) is clearly
\* rising, (2,1) rising with fluctuation and (1,1) relatively stable.
C17_TrendClassification ==
    (pc = "trend_done" /\ Len(state) >= 2) =>
        LET p == StepsUp(state)
            n == StepsDown(state)
        IN /\ (p > 2 * n) => ret = TREND_RISING
           /\ (~(p > 2 * n) /\ p > n) => ret = TREND_RISING_FLUCT
           /\ (~(p > n) /\ n > 2 * p) => ret = TREND_FALLING
           /\ (~(p > n) /\ ~(n > 2 * p) /\ n > p) => ret = TREND_FALLING_FLUCT
           /\ (~(p > n) /\ ~(n > p)) => ret = TREND_STABLE
           /\ (p = 3 /\ n = 1) => ret = TREND_RISING
           /\ (p = 2 /\ n = 1) => ret = TREND_RISING_FLUCT
           /\ (p = 1 /\ n = 1) => ret = TREND_STABLE

C17_Witness ==
    /\ pc = "trend_done"
    /\ state = <<1, 2, 3, 2, 3>>
    /\ StepsUp(state) = 3 /\ StepsDown(state) = 1
    /\ ret = TREND_RISING

\* ------------------------------------------------ the combiner in the run
\* the providers a request stands for: all three when it names all
Expanded == IF ALL \in Requested THEN Concrete ELSE Requested \cap Concrete

\* positions in the log of the steps of a node
StepsOf(n) == {i \in 1..Len(log) : log[i].node = n}

\* C18: in every call the combiner runs exactly once, only after the step of
\* every provider the request stands for (all expanded to the three) has
\* finished, and no provider runs after it; what is handed to the generation
\* call is one block for each result the provider steps stored, and no other.
C18_CombineOnceAfterAll ==
    /\ TimesRun("combiner") <= 1
    /\ pc \in {"END", "done"} => TimesRun("combiner") = 1
    /\ \A j \in StepsOf("combiner") :
        /\ \A a \in Expanded : \E i \in StepsOf(NodeOf(a)) : i < j
        /\ \A n \in AgentNodes : \A i \in StepsOf(n) : i < j
    /\ \A j \in StepsOf("llm") :
        /\ Len(log[j].input) = Len(state.agent_responses)
        /\ {b.content : b \in {log[j].input[i] : i \in 1..Len(log[j].input)}}
                = {state.agent_responses[i].v.content : i \in 1..Len(state.agent_responses)}

\* C19: when the request names all, alone or with concrete providers, the
\* three providers are all invoked and the results have the keys rag,
\* snowflake and web_search; all is never a key.
C19_AllWithConcrete ==
    (pc \in {"combiner", "END", "done"} /\ ALL \in Requested) =>
        /\ AgentNodes \subseteq Ran
        /\ Keys(state.agent_responses) = Concrete
        /\ ALL \notin Keys(state.agent_responses)

\* ------------------------------------------------ the blocks of the combiner
\* the contents a result of provider a can have: its error text, one of its
\* no-data texts, a generated answer
ContentsOf(a) == {ErrorText(a), LLMContent(a)} \cup NoDataTexts(a)

\* every agent_responses dict _combine_responses can be handed: any of the
\* three keys, inserted in any order, with any content
RECURSIVE OrderedDicts(_)
OrderedDicts(keys) ==
    {<<>>} \cup
    UNION {{<<[k |-> a, v |-> AgentResponse(a, c, NoneDict)]>> \o rest :
                c \in ContentsOf(a), rest \in OrderedDicts(keys \ {a})} : a \in keys}

\* In SpecCombine the run is at the combiner with any such dict in its state.
InitCombine ==
    /\ pc = "combiner"
    /\ request = NoneDict
    /\ \E d \in OrderedDicts(Concrete) :
        state = [query |-> "q",
                 agents |-> DictKeys(d),
                 time_range |-> [start_quarter |-> QuarterLabel(1),
                                 end_quarter |-> QuarterLabel(1)],
                 agent_responses |-> d,
                 combined_response |-> None,
                 error |-> None]
    /\ ret = NoneDict
    /\ log = <<>>

NextCombine == CombinerNode

SpecCombine == InitCombine /\ [][NextCombine]_vars

\* the label of the block of each provider
BlockLabel(a) == CASE a = RAG -> "Historical Performance (RAG Agent)"
                   [] a = SNOWFLAKE -> "Financial Metrics (Snowflake Agent)"
                   [] a = WEB_SEARCH -> "Real-time Insights (Web Search Agent)"

\* the providers with a result in the state, in the order rag, snowflake,
\* web_search
Present == SelectSeq(<<RAG, SNOWFLAKE, WEB_SEARCH>>,
                     LAMBDA a : a \in Keys(state.agent_responses))

\* the blocks handed to the generation call of the combiner are one per
\* present result and none other, in the order rag, snowflake, web_search
\* whatever the order of the dict, each with the content of its result
BlocksMatchResults ==
    \A j \in StepsOf("llm") :
        /\ Len(log[j].input) = Len(Present)
        /\ \A i \in 1..Len(Present) :
            log[j].input[i].content = DictGet(state.agent_responses, Present[i]).content

\* C20 (as stated): one labelled block per present result, none for an
\* absent provider, in the order Document, Metrics, Web whatever the map
\* holds, and the block of a failed result is labelled as failed.
C20_FailedBlockLabelled ==
    /\ BlocksMatchResults
    /\ \A j \in StepsOf("llm") : \A i \in 1..Len(Present) :
        log[j].input[i].content = ErrorText(Present[i]) =>
            log[j].input[i].label # BlockLabel(Present[i])

\* C20 (amended): one labelled block per present result, none for an absent
\* provider, in the order rag, snowflake, web_search whatever the map holds;
\* every block has the fixed label of its provider, the block of a failed
\* result too: it differs from another in its content alone, which is the
\* provider's error text.
C20_BlocksPerResult ==
    /\ BlocksMatchResults
    /\ \A j \in StepsOf("llm") : \A i \in 1..Len(Present) :
        /\ log[j].input[i].label = BlockLabel(Present[i])
        /\ DOMAIN log[j].input[i] = {"label", "content"}
    /\ (pc = "END" /\ state.agent_responses # <<>>) => StepsOf("llm") # {}

C20_Witness ==
    /\ pc = "END"
    /\ DictKeys(state.agent_responses) = <<WEB_SEARCH, RAG>>
    /\ \E j \in StepsOf("llm") :
        log[j].input = <<[label |-> "Historical Performance (RAG Agent)", content |-> RAG_ERROR],
                         [label |-> "Real-time Insights (Web Search Agent)",
                          content |-> LLMContent(WEB_SEARCH)]>>

\* ------------------------------------------------ the web search agent alone
MaxResults == 2     \* longest list of items a search returns

\* the sources of the items a search can return, and the lists of items
\* (each item stands for its source; two items can have the same source)
WebSources == {"reuters", "bloomberg"}
WebListsWide == UNION {[1..n -> WebSources] : n \in 0..MaxResults}

\* what the three searches answer when they are issued, and whether the
\* generation call raises
WebEnvsWide ==
    [general : WebListsWide, financial : WebListsWide, trending : WebListsWide,
     llm_raises : BOOLEAN]

\* the calls WebSearchAgent.process_query makes, in order: the general
\* search; when it gave an item, the financial and the trending search and
\* then the generation call
WebCalls(env) ==
    IF env.general = <<>>
    THEN <<"search">>
    ELSE <<"search", "search_financial_news", "get_trending_topics", "llm">>

\* In SpecWeb state is what the backends answer, ret the AgentResponse of
\* process_query and log the calls it made.
InitWeb ==
    /\ pc = "web_search"
    /\ request = NoneDict
    /\ state \in WebEnvsWide
    /\ ret = NoneDict
    /\ log = <<>>

WebProcessQuery ==
    /\ pc = "web_search"
    /\ ret' = WebSearchProcessQuery("q", NoneDict, state).value
    /\ log' = WebCalls(state)
    /\ pc' = "web_search_done"
    /\ UNCHANGED <<request, state>>

NextWeb == WebProcessQuery

SpecWeb == InitWeb /\ [][NextWeb]_vars

\* C21 (as stated): the no-results answer is returned if and only if the
\* general, the financial and the trending search all return nothing; when
\* one of them returns an item the generation call is made.
C21_NoResultsIffAllEmpty ==
    pc = "web_search_done" =>
        /\ (ret.content = WEB_NO_RESULTS) <=> WebNoItems(state)
        /\ ~WebNoItems(state) => InList("llm", log)

\* C21 (amended): the no-results answer is returned if and only if the
\* general search returns nothing, and then neither the financial nor the
\* trending search is issued and no generation call is made; whenever the
\* general search returns an item the other two searches are issued and the
\* generation call is made.
C21_NoResultsIffGeneralEmpty ==
    pc = "web_search_done" =>
        /\ (ret.content = WEB_NO_RESULTS) <=> (state.general = <<>>)
        /\ state.general = <<>> => (log = <<"search">> /\ ret.data = NoneDict)
        /\ state.general # <<>> =>
            /\ log = <<"search", "search_financial_news", "get_trending_topics", "llm">>
            /\ ret.content = IF state.llm_raises THEN WEB_ERROR ELSE LLMContent(WEB_SEARCH)

C21_Witness ==
    /\ pc = "web_search_done"
    /\ state.general = <<>>
    /\ state.financial # <<>>
    /\ ret.content = WEB_NO_RESULTS

\* the list has no element twice
NoDuplicates(lst) == \A i, j \in 1..Len(lst) : lst[i] = lst[j] => i = j

\* C22: when process_query succeeds, data holds a list of sources without
\* duplicates taken from the result sets and, as result_count, the sum of
\* the sizes of the general, the financial and the trending result set.
C22_DistinctSourcesAndCount ==
    (pc = "web_search_done" /\ ret.data # NoneDict) =>
        /\ NoDuplicates(ret.data.sources)
        /\ \A i \in 1..Len(ret.data.sources) :
                \/ InList(ret.data.sources[i], state.general)
                \/ InList(ret.data.sources[i], state.financial)
                \/ InList(ret.data.sources[i], state.trending)
        /\ ret.data.result_count =
                Len(state.general) + Len(state.financial) + Len(state.trending)

\* ------------------------------------------------ the time filter of the index
MaxYears == 2       \* number of consecutive years explored

\* the (year, quarter) pairs of the years explored
Years == 2021..(2021 + MaxYears - 1)
Periods == {<<y, q>> : y \in Years, q \in 1..4}

\* metadata filters as the index takes them: {"$and": [...]}, {"$or": [...]},
\* {field: {"$gt" | "$gte" | "$lt" | "$lte": value}} and {field: value}
FilterAnd(args) == [op |-> "$and", args |-> args]
FilterOr(args) == [op |-> "$or", args |-> args]
FilterCmp(field, cmp, value) == [field |-> field, cmp |-> cmp, value |-> value]
FilterEq(field, value) == [field |-> field, cmp |-> "$eq", value |-> value]

\* does a vector with this metadata pass the filter
RECURSIVE FilterAccepts(_, _)
FilterAccepts(f, metadata) ==
    IF "op" \in DOMAIN f
    THEN IF f.op = "$and"
         THEN \A i \in 1..Len(f.args) : FilterAccepts(f.args[i], metadata)
         ELSE \E i \in 1..Len(f.args) : FilterAccepts(f.args[i], metadata)
    ELSE CASE f.cmp = "$gt" -> metadata[f.field] > f.value
           [] f.cmp = "$gte" -> metadata[f.field] >= f.value
           [] f.cmp = "$lt" -> metadata[f.field] < f.value
           [] f.cmp = "$lte" -> metadata[f.field] <= f.value
           [] f.cmp = "$eq" -> metadata[f.field] = f.value

\* the metadata load_and_index_reports gives the vectors of a report
Metadata(period) == [year |-> period[1], quarter |-> period[2], quarter_label |-> period]

\* variant: the quarter of the start year is compared with $gt
construct_time_filter_strict_start(start_year, start_q, end_year, end_q) ==
    FilterAnd(<<
        FilterOr(<<FilterCmp("year", "$gt", start_year),
                   FilterAnd(<<FilterEq("year", start_year),
                               FilterCmp("quarter", "$gt", start_q)>>)>>),
        FilterOr(<<FilterCmp("year", "$lt", end_year),
                   FilterAnd(<<FilterEq("year", end_year),
                               FilterCmp("quarter", "$lte", end_q)>>)>>)>>)

\* PineconeService._construct_time_filter
construct_time_filter(start_year, start_q, end_year, end_q) ==
    FilterAnd(<<
        FilterOr(<<FilterCmp("year", "$gt", start_year),
                   FilterAnd(<<FilterEq("year", start_year),
                               FilterCmp("quarter", "$gte", start_q)>>)>>),
        FilterOr(<<FilterCmp("year", "$lt", end_year),
                   FilterAnd(<<FilterEq("year", end_year),
                               FilterCmp("quarter", "$lte", end_q)>>)>>)>>)

\* In SpecFilter state holds the two ends the filter is built for and the
\* period of a vector of the index, ret the filter and whether the vector
\* passes it.
InitFilter ==
    /\ pc = "filter"
    /\ request = NoneDict
    /\ state \in [start : Periods, end : Periods, vector : Periods]
    /\ ret = NoneDict
    /\ log = <<>>

ConstructTimeFilter ==
    /\ pc = "filter"
    /\ LET f == construct_time_filter(state.start[1], state.start[2],
                                      state.end[1], state.end[2])
       IN ret' = [filter |-> f, accepts |-> FilterAccepts(f, Metadata(state.vector))]
    /\ pc' = "filter_done"
    /\ UNCHANGED <<request, state, log>>

NextFilter == ConstructTimeFilter

SpecFilter == InitFilter /\ [][NextFilter]_vars

\* the rank of a period in the order of time: with quarters 1..4 it orders
\* the periods as the pairs (year, quarter) are ordered lexicographically
PeriodRank(p) == 4 * p[1] + p[2]

\* C25: the filter built for (start_year, start_q, end_year, end_q) accepts
\* a vector of (year, quarter) if and only if
\* (start_year, start_q) <= (year, quarter) <= (end_year, end_q) in the
\* lexicographic order of year, then quarter.
C25_TimeFilterIsRange ==
    pc = "filter_done" =>
        (ret.accepts <=>
            /\ PeriodRank(state.start) <= PeriodRank(state.vector)
            /\ PeriodRank(state.vector) <= PeriodRank(state.end))

C25_Witness ==
    /\ pc = "filter_done"
    /\ state.start = <<2021, 3>>
    /\ state.end = <<2022, 2>>
    /\ state.vector = <<2022, 1>>
    /\ ret.accepts

\* ------------------------------------------------ hybrid_search
MaxIndexed == 2     \* number of indexed reports explored

\* a label that is not of the form YYYYqQ
BAD_LABEL == <<>>

\* PineconeService._parse_quarter_label: the (year, quarter) of a label, an
\* exception for a label that does not split into two integers
parse_quarter_label(quarter_label) ==
    IF Len(quarter_label) = 2
    THEN Returned(<<quarter_label[1], quarter_label[2]>>)
    ELSE Raised("invalid literal for int()")

\* the time_range arguments of hybrid_search: None, or two labels that
\* nothing validates
SearchRanges ==
    {NoneDict} \cup [start_quarter : Periods \cup {BAD_LABEL},
                     end_quarter : Periods \cup {BAD_LABEL}]

\* What the index is during one hybrid_search:
\*   vectors          the periods of the reports indexed (one vector each)
\*   stats_fails      describe_index_stats raises
\*   embed_raises     embeddings.embed_query raises
\*   first_raises     the first index.query raises
\*   second_raises    the second index.query raises
Indexes ==
    [vectors : {v \in SUBSET Periods : Cardinality(v) <= MaxIndexed},
     stats_fails : BOOLEAN, embed_raises : BOOLEAN,
     first_raises : BOOLEAN, second_raises : BOOLEAN]

\* PineconeService.check_index_stats
check_index_stats(index) ==
    IF index.stats_fails THEN 0 ELSE Cardinality(index.vectors)

\* the first n elements of a list
Take(lst, n) == SubSeq(lst, 1, IF Len(lst) < n THEN Len(lst) ELSE n)

\* results.get('matches', []) of index.query(filter=f, top_k=top_k): the
\* vectors that pass the filter, all of them when the filter is None
QueryMatches(index, f, top_k) ==
    Take(SortedLabels({p \in index.vectors :
                        f = NoneDict \/ FilterAccepts(f, Metadata(p))}), top_k)

\* filter_dict of hybrid_search: None without a time range and when a label
\* does not parse
FilterDict(time_range) ==
    IF time_range = NoneDict
    THEN NoneDict
    ELSE LET s == parse_quarter_label(time_range.start_quarter)
             e == parse_quarter_label(time_range.end_quarter)
         IN IF s.raised \/ e.raised
            THEN NoneDict
            ELSE construct_time_filter(s.value[1], s.value[2], e.value[1], e.value[2])

\* variant: the unfiltered query follows every filtered one
RetryUnfiltered_every_filtered(match_count, filter_dict) == filter_dict # NoneDict

\* the test that decides on the second, unfiltered query
RetryUnfiltered(match_count, filter_dict) ==
    match_count = 0 /\ filter_dict # NoneDict

\* the index.query calls hybrid_search makes, in order, each with its filter,
\* whether it raised and the matches it returned
SearchQueries(time_range, index) ==
    IF check_index_stats(index) = 0 \/ index.embed_raises
    THEN <<>>
    ELSE LET f == FilterDict(time_range)
             first == [filter |-> f, raised |-> index.first_raises,
                       matches |-> IF index.first_raises THEN <<>>
                                   ELSE QueryMatches(index, f, 5)]
             second == [filter |-> NoneDict, raised |-> index.second_raises,
                        matches |-> IF index.second_raises THEN <<>>
                                    ELSE QueryMatches(index, NoneDict, 5)]
         IN IF ~first.raised /\ RetryUnfiltered(Len(first.matches), f)
            THEN <<first, second>>
            ELSE <<first>>

\* PineconeService.hybrid_search: the list of formatted matches (each stands
\* for the period of its metadata), or the exception of embed_query
hybrid_search(query, time_range, index) ==
    IF check_index_stats(index) = 0
    THEN Returned(<<>>)
    ELSE IF index.embed_raises
    THEN Raised("embed_query")
    ELSE LET queries == SearchQueries(time_range, index)
         IN IF \E i \in 1..Len(queries) : queries[i].raised
            THEN Returned(<<>>)
            ELSE IF Len(queries) = 2 /\ Len(queries[2].matches) > 0
            THEN Returned(queries[2].matches)
            ELSE Returned(queries[1].matches)

\* In SpecSearch request is the time_range argument, state the index, ret
\* what hybrid_search gives and log the index queries it made.
InitSearch ==
    /\ pc = "hybrid_search"
    /\ request \in SearchRanges
    /\ state \in Indexes
    /\ ret = NoneDict
    /\ log = <<>>

HybridSearch ==
    /\ pc = "hybrid_search"
    /\ ret' = hybrid_search("q", request, state)
    /\ log' = SearchQueries(request, state)
    /\ pc' = "hybrid_search_done"
    /\ UNCHANGED <<request, state>>

NextSearch == HybridSearch

SpecSearch == InitSearch /\ [][NextSearch]_vars

\* the vectors of the index whose period lies in the time range of the call
InRange ==
    {p \in state.vectors :
        /\ PeriodRank(request.start_quarter) <= PeriodRank(p)
        /\ PeriodRank(p) <= PeriodRank(request.end_quarter)}

\* the call was given a time range whose two labels parse
TimeFilterApplied ==
    /\ request # NoneDict
    /\ request.start_quarter # BAD_LABEL
    /\ request.end_quarter # BAD_LABEL

\* the elements of a list
Elems(lst) == {lst[i] : i \in 1..Len(lst)}

\* C24: hybrid_search makes at most two index queries; the second is
\* unfiltered and is made only when a time filter was applied and the
\* filtered query returned no match; the call then returns the unfiltered
\* matches when there are any and an empty list otherwise; the matches of a
\* filtered query that has some are what the call returns; a query that
\* raises makes the call return an empty list, not raise.
C24_SearchFallback ==
    pc = "hybrid_search_done" =>
        /\ Len(log) <= 2
        /\ Len(log) = 2 =>
            /\ log[2].filter = NoneDict
            /\ TimeFilterApplied
            /\ log[1].filter # NoneDict
            /\ ~log[1].raised /\ log[1].matches = <<>>
            /\ InRange = {}
            /\ ~log[2].raised => (~ret.raised /\ Elems(ret.value) = state.vectors)
        /\ (Len(log) >= 1 /\ TimeFilterApplied /\ ~log[1].raised /\ InRange # {}) =>
            /\ Len(log) = 1
            /\ ~ret.raised
            /\ Elems(ret.value) = InRange
        /\ (\E i \in 1..Len(log) : log[i].raised) => (~ret.raised /\ ret.value = <<>>)

C24_Witness ==
    /\ pc = "hybrid_search_done"
    /\ request = [start_quarter |-> <<2021, 1>>, end_quarter |-> <<2021, 2>>]
    /\ state.vectors = {<<2021, 3>>, <<2021, 4>>}
    /\ Len(log) = 2
    /\ ret = Returned(<<<<2021, 3>>, <<2021, 4>>>>)

\* ------------------------------------------- RAGAgent over the index
\* What surrounds one RAGAgent.process_query: the index, whether the query of
\* list_all_quarters raises, whether the generation call raises
RagWorlds == [index : Indexes, list_fails : BOOLEAN, llm_raises : BOOLEAN]

\* PineconeService.list_all_quarters: the labels of the indexed reports, an
\* empty list when its query raises
list_all_quarters(world) ==
    IF world.list_fails THEN {} ELSE world.index.vectors

\* what the index answers to the agent, as RAGTry reads it
RagEnvOf(time_range, world) ==
    LET found == hybrid_search("q", time_range, world.index)
    IN [total_vectors |-> check_index_stats(world.index),
        available_quarters |-> list_all_quarters(world),
        search_raises |-> found.raised,
        hits |-> IF found.raised THEN <<>> ELSE found.value,
        llm_raises |-> world.llm_raises]

\* the calls process_query makes on the index, in order
RagCalls(time_range, world) ==
    LET env == RagEnvOf(time_range, world)
    IN IF env.total_vectors = 0
       THEN <<"check_index_stats">>
       ELSE IF /\ env.available_quarters # {}
               /\ time_range.start_quarter \notin env.available_quarters
               /\ time_range.end_quarter \notin env.available_quarters
       THEN <<"check_index_stats", "list_all_quarters">>
       ELSE <<"check_index_stats", "list_all_quarters", "hybrid_search">>

\* In SpecRag request is the time range, state the world of the call, ret the
\* response of the agent and log the calls it made on the index.
InitRag ==
    /\ pc = "rag"
    /\ request \in [start_quarter : Periods, end_quarter : Periods]
    /\ state \in RagWorlds
    /\ ret = NoneDict
    /\ log = <<>>

RagProcessQuery ==
    /\ pc = "rag"
    /\ ret' = RAGProcessQuery("q", request, RagEnvOf(request, state)).value
    /\ log' = RagCalls(request, state)
    /\ pc' = "rag_done"
    /\ UNCHANGED <<request, state>>

NextRag == RagProcessQuery

SpecRag == InitRag /\ [][NextRag]_vars

\* C23: on a non-empty index the agent returns a no-data text only after
\* hybrid_search has been called and has returned no passage.
C23_NoDataOnlyAfterSearch ==
    (/\ pc = "rag_done"
     /\ check_index_stats(state.index) # 0
     /\ ret.content \in {RAG_NO_PERIOD, RAG_NO_INFO}) =>
        /\ InList("hybrid_search", log)
        /\ hybrid_search("q", request, state.index) = Returned(<<>>)

\* the case of C23 in the code: two reports strictly inside the requested
\* range, neither endpoint indexed, and no search made
C23_InsideRangeNotSearched ==
    /\ pc = "rag_done"
    /\ request = [start_quarter |-> <<2021, 1>>, end_quarter |-> <<2021, 4>>]
    /\ state.index.vectors = {<<2021, 2>>, <<2021, 3>>}
    /\ ret.content = RAG_NO_PERIOD
    /\ ~InList("hybrid_search", log)

\* ------------------------------------------------------ report indexing
MaxRequests == 5    \* number of requests and job steps observed

STARTED == "Indexing started in the background"
IN_PROGRESS == "Indexing is already in progress"

\* In SpecIndexing state holds the module global is_indexing of main.py, the
\* number of run_indexing tasks added to BackgroundTasks and not yet started,
\* and the number of run_indexing coroutines inside their try block; ret is
\* the last response sent, log the history of what happened, request the
\* number of requests received.
InitIndexing ==
    /\ pc = "serving"
    /\ request = 0
    /\ state = [is_indexing |-> FALSE, queued |-> 0, running |-> 0]
    /\ ret = NoneDict
    /\ log = <<>>

\* variant: the endpoint does not test the flag
index_reports_no_test(s) ==
    [state |-> [s EXCEPT !.is_indexing = TRUE, !.queued = @ + 1],
     response |-> [message |-> STARTED]]

\* index_reports: the state after the handler and its response; the handler
\* awaits nothing, so the test and the assignment of the flag are one step
index_reports(s) ==
    IF s.is_indexing
    THEN [state |-> s, response |-> [message |-> IN_PROGRESS]]
    ELSE [state |-> [s EXCEPT !.is_indexing = TRUE, !.queued = @ + 1],
          response |-> [message |-> STARTED]]

\* POST /api/index-reports. run_indexing calls load_and_index_reports
\* synchronously, so the event loop serves no request while a job runs.
IndexReports ==
    /\ request < MaxRequests
    /\ state.running = 0
    /\ LET r == index_reports(state)
       IN /\ state' = r.state
          /\ ret' = r.response
          /\ log' = Append(log, IF r.response.message = STARTED
                                THEN "accepted" ELSE "refused")
    /\ request' = request + 1
    /\ UNCHANGED pc

\* GET /api/indexing-status
IndexingStatus ==
    /\ request < MaxRequests
    /\ state.running = 0
    /\ ret' = [is_indexing |-> state.is_indexing]
    /\ log' = Append(log, IF state.is_indexing THEN "status_true" ELSE "status_false")
    /\ request' = request + 1
    /\ UNCHANGED <<pc, state>>

\* the background task starts after its response was sent: run_indexing
\* enters its try block
RunIndexingStart ==
    /\ state.queued > 0
    /\ state.running = 0
    /\ state' = [state EXCEPT !.queued = @ - 1, !.running = @ + 1]
    /\ log' = Append(log, "job_started")
    /\ UNCHANGED <<pc, request, ret>>

\* variant: the flag is cleared at the end of the try block
run_indexing_no_finally(s, outcome) ==
    [s EXCEPT !.running = @ - 1,
              !.is_indexing = IF outcome = "job_raised" THEN @ ELSE FALSE]

\* run_indexing from the end of load_and_index_reports on: the exception is
\* logged, and the finally block clears the flag on both paths
run_indexing(s, outcome) ==
    [s EXCEPT !.running = @ - 1, !.is_indexing = FALSE]

\* load_and_index_reports returns or raises
RunIndexingEnd ==
    /\ state.running > 0
    /\ \E outcome \in {"job_completed", "job_raised"} :
          /\ state' = run_indexing(state, outcome)
          /\ log' = Append(log, outcome)
    /\ UNCHANGED <<pc, request, ret>>

NextIndexing ==
    \/ IndexReports
    \/ IndexingStatus
    \/ RunIndexingStart
    \/ RunIndexingEnd

\* a task added to BackgroundTasks is run once its response is sent, and the
\* flag's reset is claimed for jobs that end
SpecIndexing ==
    /\ InitIndexing /\ [][NextIndexing]_vars
    /\ WF_vars(RunIndexingStart) /\ WF_vars(RunIndexingEnd)

\* the number of jobs scheduled or running
Jobs == state.queued + state.running

\* C26: the flag is true exactly while a job is scheduled or running; it
\* turns true exactly in the step that accepts a job; the step that ends a
\* job, completed or raised, leaves it false; the status endpoint answers
\* true only while a job is scheduled or running; a flag that is true is
\* eventually false again.
C26_FlagLifecycle ==
    /\ [](state.is_indexing <=> Jobs > 0)
    /\ [][(~state.is_indexing /\ state'.is_indexing)
            <=> (log' = Append(log, "accepted") /\ ret' = [message |-> STARTED])]_vars
    /\ [][(log' \in {Append(log, "job_completed"), Append(log, "job_raised")})
            => (state.is_indexing /\ ~state'.is_indexing)]_vars
    /\ [][(log' = Append(log, "status_true")) => (Jobs > 0 /\ ret'.is_indexing)]_vars
    /\ [][(log' = Append(log, "status_false")) => (Jobs = 0 /\ ~ret'.is_indexing)]_vars
    /\ (state.is_indexing ~> ~state.is_indexing)

C26_Witness ==
    /\ Len(log) >= 5
    /\ SubSeq(log, Len(log) - 4, Len(log)) =
          <<"accepted", "status_true", "job_started", "job_raised", "status_false">>
    /\ ~state.is_indexing

\* jobs accepted so far and jobs ended so far
Count(lst, S) == Cardinality({i \in 1..Len(lst) : lst[i] \in S})

\* C27: at most one job is scheduled or running; a request that arrives
\* while the flag is true schedules no job and is answered that indexing is
\* already in progress; a job is accepted only when every job accepted
\* before has ended.
C27_AtMostOneJob ==
    /\ [](Jobs <= 1)
    /\ [][(state.is_indexing /\ request' = request + 1 /\ "message" \in DOMAIN ret')
            => (ret'.message = IN_PROGRESS /\ state' = state)]_vars
    /\ [][(log' = Append(log, "accepted"))
            => (~state.is_indexing
                /\ Count(log, {"accepted"}) = Count(log, {"job_completed", "job_raised"}))]_vars

C27_Witness ==
    /\ Len(log) >= 5
    /\ SubSeq(log, Len(log) - 4, Len(log)) =
          <<"accepted", "refused", "job_started", "job_completed", "accepted">>
    /\ Jobs = 1

\* C28: during a call every entry of agent_responses is stored under the
\* key of the agent that produced it, the error field of the state is still
\* None when the agent nodes have run, and an agent that hit an exception of its backend or of
\* the generation call has a response of its own kind, carrying its error
\* text, in the results.
C28_ResultsKeyedByProducer ==
    pc \notin {"idle", "done"} =>
        /\ \A i \in 1..Len(state.agent_responses) :
              state.agent_responses[i].v.agent_type = state.agent_responses[i].k
        /\ "combiner" \notin Ran => state.error = None
        /\ \A a \in Concrete :
              ProviderRaised(NodeOf(a)) =>
                  /\ DictHas(state.agent_responses, a)
                  /\ DictGet(state.agent_responses, a).agent_type = a
                  /\ DictGet(state.agent_responses, a).content = ErrorText(a)

C28_Witness ==
    /\ pc = "combiner"
    /\ DictKeys(state.agent_responses) = <<RAG, SNOWFLAKE, WEB_SEARCH>>
    /\ \A a \in Concrete : DictGet(state.agent_responses, a).agent_type = a
    /\ ProviderRaised("snowflake_agent") /\ ProviderRaised("web_search_agent")
    /\ ~ProviderRaised("rag_agent")
    /\ state.error = None

\* ------------------------------------ process_query raising to the node
\* The agents of this repository catch their own exceptions.  SpecFailing
\* lets the awaited process_query of a node raise all the same, which is
\* what the except branches of _run_rag_agent, _run_snowflake_agent and
\* _run_web_search_agent are written for.  The run starts at the start node
\* with the initial state of one request.
FailingRequests ==
    {r \in AgentRequest :
        /\ r.query = "q"
        /\ r.time_range = [start_quarter |-> QuarterLabel(1),
                           end_quarter |-> QuarterLabel(1)]}

InitFailing ==
    /\ pc = "start"
    /\ request \in FailingRequests
    /\ state = InitialState(request)
    /\ ret = NoneDict
    /\ log = <<>>

\* node rag_agent when awaiting process_query raises
RagAgentRaises ==
    /\ pc = "rag_agent"
    /\ state' = run_rag_agent(state, Raised("process_query"))
    /\ log' = Append(log, [node |-> "rag_agent", exc |-> TRUE, empty |-> FALSE])
    /\ pc' = EdgeTarget("rag_agent", route_after_rag(state'))
    /\ UNCHANGED <<request, ret>>

\* node snowflake_agent when awaiting process_query raises
SnowflakeAgentRaises ==
    /\ pc = "snowflake_agent"
    /\ state' = run_snowflake_agent(state, Raised("process_query"))
    /\ log' = Append(log, [node |-> "snowflake_agent", exc |-> TRUE, empty |-> FALSE])
    /\ pc' = EdgeTarget("snowflake_agent", route_after_snowflake(state'))
    /\ UNCHANGED <<request, ret>>

\* node web_search_agent when awaiting process_query raises
WebSearchAgentRaises ==
    /\ pc = "web_search_agent"
    /\ state' = run_web_search_agent(state, Raised("process_query"))
    /\ log' = Append(log, [node |-> "web_search_agent", exc |-> TRUE, empty |-> FALSE])
    /\ pc' = "combiner"
    /\ UNCHANGED <<request, ret>>

NextFailing ==
    \/ StartNode
    \/ RagAgentNode
    \/ SnowflakeAgentNode
    \/ WebSearchAgentNode
    \/ RagAgentRaises
    \/ SnowflakeAgentRaises
    \/ WebSearchAgentRaises
    \/ CombinerNode
    \/ ReturnResponse

SpecFailing == InitFailing /\ [][NextFailing]_vars

\* C29: a step of an agent node that changes the error field changes nothing
\* else in the state; every step of an agent node leaves the query, the
\* agents and the time range as they are and keeps every response stored
\* before it, at its place and with its content.
C29_FailedStepFrame ==
    [][(pc \in AgentNodes) =>
        (/\ state'.error # state.error => state' = [state EXCEPT !.error = state'.error]
         /\ state'.query = state.query
         /\ state'.agents = state.agents
         /\ state'.time_range = state.time_range
         /\ Len(state'.agent_responses) >= Len(state.agent_responses)
         /\ \A i \in 1..Len(state.agent_responses) :
               state'.agent_responses[i] = state.agent_responses[i])
      ]_vars

C29_Witness ==
    /\ pc = "combiner"
    /\ state.error = "Snowflake agent error"
    /\ DictKeys(state.agent_responses) = <<RAG, WEB_SEARCH>>
    /\ state.query = request.query /\ state.agents = request.agents
    /\ state.time_range = request.time_range

\* ----------------------------------------- SnowflakeAgent over a table
MaxCap == 3     \* largest market cap of a row

\* the tables explored: at most one row per label, market caps 0..MaxCap
\* (0 is what safe_get substitutes for a missing value)
Tables ==
    {t \in SUBSET [quarter_label : Quarters, market_cap : 0..MaxCap] :
        \A r1, r2 \in t : r1.quarter_label = r2.quarter_label => r1 = r2}

\* a quotient of two numbers, kept as numerator and denominator
Quotient(a, b) == [num |-> a, den |-> b]

\* variant: the change is taken relative to the last row
market_cap_change_from_last(metrics) ==
    LET labels == SortedLabels({metrics[i].quarter_label : i \in 1..Len(metrics)})
        row(l) == CHOOSE r \in {metrics[i] : i \in 1..Len(metrics)} : r.quarter_label = l
        first == row(labels[1])
        last == row(labels[Len(labels)])
    IN IF last.market_cap = 0
       THEN Raised("float division by zero")
       ELSE LET q == Quotient(first.market_cap, last.market_cap)
                m == Quotient(q.num - 1 * q.den, q.den)
            IN Returned(Quotient(m.num * 100, m.den))

\* market_cap_change of _extract_key_metrics, for a non-empty list of rows:
\* the rows are sorted by (year, quarter), and
\* ((last.market_cap / first.market_cap) - 1) * 100 is computed step by
\* step; dividing by 0.0 raises ZeroDivisionError
market_cap_change(metrics) ==
    LET labels == SortedLabels({metrics[i].quarter_label : i \in 1..Len(metrics)})
        row(l) == CHOOSE r \in {metrics[i] : i \in 1..Len(metrics)} : r.quarter_label = l
        first == row(labels[1])
        last == row(labels[Len(labels)])
    IN IF first.market_cap = 0
       THEN Raised("float division by zero")
       ELSE LET q == Quotient(last.market_cap, first.market_cap)
                m == Quotient(q.num - 1 * q.den, q.den)
            IN Returned(Quotient(m.num * 100, m.den))

\* what process_query did besides returning: the outcome of the percent
\* change (None when it was not computed) and the number of generation calls
MetricsTrace(time_range, env) ==
    LET metrics == get_valuation_metrics(time_range, env.store)
    IN IF metrics = <<>>
       THEN [change |-> NoneDict, llm_calls |-> 0]
       ELSE [change |-> market_cap_change(metrics),
             llm_calls |-> IF market_cap_change(metrics).raised THEN 0 ELSE 1]

\* In SpecMetrics request is the time range, state what surrounds the call
\* (the store with its table, the charts drawn, the generation call), ret
\* what process_query gives and log the trace of the call.
InitMetrics ==
    /\ pc = "metrics"
    /\ request \in TimeRange
    /\ state \in [store : [status : {"no_connection", "error", "ok"}, table : Tables],
                  charts : {{}, ChartNames},
                  llm_raises : BOOLEAN]
    /\ ret = NoneDict
    /\ log = <<>>

MetricsProcessQuery ==
    /\ pc = "metrics"
    /\ ret' = SnowflakeProcessQuery("q", request, state)
    /\ log' = MetricsTrace(request, state)
    /\ pc' = "metrics_done"
    /\ UNCHANGED <<request, state>>

NextMetrics == MetricsProcessQuery

SpecMetrics == InitMetrics /\ [][NextMetrics]_vars

\* the rows of the table the call reads, and the earliest and the latest
RowsRead ==
    IF state.store.status # "ok" THEN {}
    ELSE {r \in state.store.table :
            /\ PeriodRank(request.start_quarter) <= PeriodRank(r.quarter_label)
            /\ PeriodRank(r.quarter_label) <= PeriodRank(request.end_quarter)}
Earliest ==
    CHOOSE r \in RowsRead :
        \A o \in RowsRead : PeriodRank(r.quarter_label) <= PeriodRank(o.quarter_label)
Latest ==
    CHOOSE r \in RowsRead :
        \A o \in RowsRead : PeriodRank(o.quarter_label) <= PeriodRank(r.quarter_label)

\* C30: when the earliest row read has market cap 0, process_query returns
\* and does not raise, the percent change fails on its division, no
\* generation call is made, and the response is of the Snowflake agent with
\* its error text and no data; when the earliest market cap is not 0 the
\* percent change c satisfies c * first = 100 * (last - first).
C30_ZeroMarketCap ==
    (pc = "metrics_done" /\ RowsRead # {}) =>
        /\ Earliest.market_cap = 0 =>
              /\ ~ret.raised
              /\ ret.value = AgentResponse(SNOWFLAKE, SNOWFLAKE_ERROR, NoneDict)
              /\ log.change.raised
              /\ log.llm_calls = 0
        /\ Earliest.market_cap # 0 =>
              /\ ~log.change.raised
              /\ log.change.value.den # 0
              /\ log.change.value.num * Earliest.market_cap =
                   100 * (Latest.market_cap - Earliest.market_cap) * log.change.value.den

C30_Witness ==
    /\ pc = "metrics_done"
    /\ Cardinality(RowsRead) = 2
    /\ Earliest.market_cap = 0 /\ Latest.market_cap = 2
    /\ ret = Returned(AgentResponse(SNOWFLAKE, SNOWFLAKE_ERROR, NoneDict))
    /\ log.llm_calls = 0

====
